---- MODULE Spec2Model ----
(***************************************************************************)
(* D-ABAC-Z simulation: the trust engine (src/components/trust_engine.py), *)
(* its decay and Bayesian kernels (src/core/decay_math.py,                 *)
(* src/core/hmm_trust.py), the risk-adaptive policy                        *)
(* (src/core/policy_lrap.py) and the decision path (pip.py, pdp.py,        *)
(* pep.py).                                                                *)
(*                                                                         *)
(* Number representation.  The program computes on Python floats; here     *)
(* every real is a fixed-point integer:                                    *)
(*   trust / belief / threshold : thousandths      (BeliefScale)           *)
(*   likelihoods                : thousandths      (LikelihoodScale)       *)
(*   time stamps, delta_t       : tenths of a unit (TimeScale)             *)
(*   decay rate                 : hundredths       (RateScale)             *)
(*   value of exp               : 1e-9             (ExpScale)              *)
(* Products are rounded to the nearest unit, as a float operation rounds   *)
(* to the nearest representable value.  The decay functions are linear in  *)
(* the belief they are given, which may be in any unit: the trust engine   *)
(* passes thousandths, the direct calls of the kernels pass units of 1e-9. *)
(***************************************************************************)
EXTENDS Integers, Sequences, FiniteSets, TLC

VARIABLES
    clock,      \* the value time.time() returns now (tenths)
    db,         \* TrustEngine._db : subject -> [score, last_update]
    th,         \* one activation record per caller thread
    cache,      \* PEP._decision_cache : "subject::object" -> LRAPResult
    out,        \* outcome of the latest completed trust-engine call
    resp,       \* outcome of the latest PEP.access_request
    ncalls,     \* history: number of trust-engine calls started
    nreq,       \* history: number of access requests made
    calc        \* the latest direct call of a function of src/core

vars == <<clock, db, th, cache, out, resp, ncalls, nreq, calc>>

----------------------------------------------------------------------------
(* Scales of the fixed-point representation *)

BeliefScale == 10 * 100
LikelihoodScale == 10 * 100
TimeScale == 2 * 5
RateScale == 10 * 10
ExpScale == 1000 * 1000 * 1000
XScale == RateScale * TimeScale

\* significant decimal digits a float carries (a double carries about 16; the
\* beliefs of this model carry three decimals)
FloatDigits == 3

(* Program constants *)

\* config.LAMBDA = 0.05, in hundredths (LAMBDA is a reserved word of TLA+)
DECAY_LAMBDA == 5

\* config.ALPHA = 0.5, in tenths
ALPHA == 5

\* hmm_trust.EPSILON = 1e-9: below one unit of likelihood*belief (1e-6), so
\* "denominator < EPSILON" is "denominator < 1 unit"
EPSILON == 1

\* the neutral belief 0.5 a first process_evidence bootstraps with
BOOTSTRAP_SCORE == 500

\* the fail-closed floor 0.0 get_effective_trust returns for an unknown subject
UNKNOWN_TRUST == 0

\* Dr. Alice's seeded trust 0.75
SEED_SCORE == 750

(* Bounds of the model *)

\* the clock takes the values 0, TickSize, ..., MaxTicks * TickSize
MaxTicks == 1

\* calls started: trust-engine calls and access requests together
MaxCalls == 3

\* access requests made through the PEP
MaxRequests == 2

\* number of terms of the exponential series
ExpTerms == 14

\* direct calls of the decay functions take elapsed times up to MaxDelta ticks
MaxDelta == 6

TickSize == 5 * TimeScale

Subjects == {"alice", "bob"}
Threads == {"t1", "t2"}

\* evidence likelihoods the callers pass: negative evidence 0.5, MFA success 999.0
Likelihoods == {500, 999000}

\* scores the seeding helper is called with (one of them is no probability)
Scores == {0 - 500, 900}

----------------------------------------------------------------------------
(* Arithmetic *)

\* a / b rounded to the nearest integer (b > 0)
RoundDiv(a, b) == (2 * a + b) \div (2 * b)

\* <<q, r>> with a * b = q * c + r and 0 <= r < c, for b >= 0, c > 0, without
\* forming the product a * b
RECURSIVE MulDivQR(_, _, _)
MulDivQR(a, b, c) ==
    IF b = 0 THEN <<0, 0>>
    ELSE LET h == MulDivQR(a, b \div 2, c)
             t == 2 * h[2]
             odd == (b % 2 = 1)
             u == (t % c) + (IF odd THEN a % c ELSE 0)
         IN  << 2 * h[1] + (t \div c) + (IF odd THEN a \div c ELSE 0) + (u \div c),
                u % c >>

\* a * b / c rounded to the nearest integer
MulDivRound(a, b, c) ==
    LET qr == MulDivQR(a, b, c)
    IN  qr[1] + (IF 2 * qr[2] >= c THEN 1 ELSE 0)

\* a * b / c rounded to the nearest integer, for b of either sign
ScaleBy(a, b, c) ==
    IF a = 0 \/ b = 0 THEN 0
    ELSE IF b > 0 THEN MulDivRound(a, b, c)
    ELSE 0 - MulDivRound(a, 0 - b, c)

\* sum of the series x^(k-1)/(k-1)! + x^k/k! + ... given its first term
RECURSIVE ExpSeries(_, _, _)
ExpSeries(x, k, term) ==
    IF k > ExpTerms \/ term = 0 THEN 0
    ELSE term + ExpSeries(x, k + 1, ScaleBy(term, x, XScale * k))

\* the series, tabulated once for the arguments the trust engine produces:
\* -LAMBDA * delta_t for the time deltas the clock allows
ExpTable ==
    [x \in {0 - (DECAY_LAMBDA * k * TickSize) : k \in 0..(MaxTicks + 1)} |->
        ExpSeries(x, 1, ExpScale)]

\* math.exp(x): x in units of 1/XScale, the value in units of 1/ExpScale
MathExp(x) ==
    IF x \in DOMAIN ExpTable THEN ExpTable[x] ELSE ExpSeries(x, 1, ExpScale)

----------------------------------------------------------------------------
(* src/core/decay_math.py *)

\* the outcome of a call that raised ValueError("... Causality violation.")
CausalityError == [raised |-> TRUE, value |-> 0]

Returned(v) == [raised |-> FALSE, value |-> v]

\* variant: a negative delta is clamped to zero instead of raising
calculate_time_delta_Clamped(current_time, last_update_time) ==
    LET delta == current_time - last_update_time
    IN  IF delta < 0 THEN Returned(0) ELSE Returned(delta)

calculate_time_delta(current_time, last_update_time) ==
    LET delta == current_time - last_update_time
    IN  IF delta < 0 THEN CausalityError ELSE Returned(delta)

\* variant: the part of the belief that has decayed is returned, not the part
\* that remains
decay_exact_Complement(trust_prior, delta_t, decay_rate) ==
    IF delta_t = 0 THEN trust_prior
    ELSE LET decay_factor == MathExp(0 - (decay_rate * delta_t))
         IN  ScaleBy(ExpScale - decay_factor, trust_prior, ExpScale)

\* variant: the belief is returned as it is, whatever time has passed
decay_exact_Undecayed(trust_prior, delta_t, decay_rate) == trust_prior

decay_exact(trust_prior, delta_t, decay_rate) ==
    IF delta_t = 0 THEN trust_prior
    ELSE LET decay_factor == MathExp(0 - (decay_rate * delta_t))
         IN  ScaleBy(decay_factor, trust_prior, ExpScale)

\* variant: no safety check, the linear factor is applied whatever its size
decay_taylor_NoFloor(trust_prior, delta_t, decay_rate) ==
    IF delta_t = 0 THEN trust_prior
    ELSE ScaleBy(trust_prior, XScale - (decay_rate * delta_t), XScale)

decay_taylor(trust_prior, delta_t, decay_rate) ==
    IF delta_t = 0 THEN trust_prior
    ELSE LET linear_factor == decay_rate * delta_t
         IN  IF linear_factor >= 1 * XScale THEN 0
             ELSE ScaleBy(trust_prior, XScale - linear_factor, XScale)

\* threshold: the switch value of rate * delta_t, in units of 1/XScale
decay_hybrid(trust_prior, delta_t, decay_rate, threshold) ==
    LET x == decay_rate * delta_t
    IN  IF x < threshold
          THEN ScaleBy(trust_prior, XScale - x, XScale)
          ELSE ScaleBy(MathExp(0 - x), trust_prior, ExpScale)

----------------------------------------------------------------------------
(* src/core/hmm_trust.py *)

\* the outcome of a call that raised ValueError("Trust score ... is out of
\* probability bounds [0, 1]")
ProbabilityBoundsError == [raised |-> TRUE, value |-> 0]

\* TrustBeliefState(value).value, for a value in units of 1e-9, in which
\* EPSILON is one unit and 1.0 is ExpScale units
\* variant: an out-of-range value is clamped without an error
TrustBeliefState_SilentClamp(value) ==
    Returned(IF value < 0 THEN 0
             ELSE IF value > 1 * ExpScale THEN 1 * ExpScale ELSE value)

TrustBeliefState(value) ==
    IF ~((0 - EPSILON <= value) /\ (value <= (1 * ExpScale) + EPSILON))
      THEN ProbabilityBoundsError
    ELSE LET upper == IF value < 1 * ExpScale THEN value ELSE 1 * ExpScale
         IN  Returned(IF upper > 0 THEN upper ELSE 0)

\* the unit in the last place of a float of magnitude v >= 0: the least power
\* of ten u that leaves v / u fewer than FloatDigits + 1 digits
RECURSIVE FloatUlp(_, _)
FloatUlp(v, u) ==
    IF v \div u < 10 ^ FloatDigits THEN u ELSE FloatUlp(v, 10 * u)

\* the float nearest to v: every product, sum and difference of floats is
\* rounded to FloatDigits significant digits before it is used
RoundFloat(v) ==
    LET m == IF v < 0 THEN 0 - v ELSE v
        u == FloatUlp(m, 1)
        r == ((m + (u \div 2)) \div u) * u
    IN  IF v < 0 THEN 0 - r ELSE r

\* the Bayesian step with the complement of the prior taken with the wrong
\* sign
calculate_posterior_SignError(prior, likelihood_honest, likelihood_compromised) ==
    LET numerator == RoundFloat(likelihood_honest * prior)
        prob_compromised == RoundFloat(prior - BeliefScale)
        denominator == RoundFloat(RoundFloat(likelihood_honest * prior)
                         + RoundFloat(likelihood_compromised * prob_compromised))
    IN  IF denominator < EPSILON THEN prior
        ELSE MulDivRound(numerator, BeliefScale, denominator)

\* the Bayesian step with the whole weight, not the complement of the prior,
\* on the compromised hypothesis
calculate_posterior_NoComplement(prior, likelihood_honest, likelihood_compromised) ==
    LET numerator == RoundFloat(likelihood_honest * prior)
        prob_compromised == BeliefScale
        denominator == RoundFloat(RoundFloat(likelihood_honest * prior)
                         + RoundFloat(likelihood_compromised * prob_compromised))
    IN  IF denominator < EPSILON THEN prior
        ELSE MulDivRound(numerator, BeliefScale, denominator)

\* calculate_posterior for a prior given in units of 1/one
calculate_posterior_in(one, prior, likelihood_honest, likelihood_compromised) ==
    LET numerator == RoundFloat(likelihood_honest * prior)
        prob_compromised == RoundFloat(one - prior)
        denominator == RoundFloat(RoundFloat(likelihood_honest * prior)
                         + RoundFloat(likelihood_compromised * prob_compromised))
    IN  IF denominator < EPSILON THEN prior
        ELSE MulDivRound(numerator, one, denominator)

\* the trust engine's beliefs are in thousandths
calculate_posterior(prior, likelihood_honest, likelihood_compromised) ==
    calculate_posterior_in(BeliefScale, prior, likelihood_honest,
                           likelihood_compromised)

----------------------------------------------------------------------------
(* src/components/trust_engine.py : the store *)

\* what dict.get(subject_id) returns for a missing key
None == [score |-> 0, last_update |-> 0 - 1]

Record(score, last_update) == [score |-> score, last_update |-> last_update]

\* self._db.get(subject_id)
DbGet(d, s) == IF s \in DOMAIN d THEN d[s] ELSE None

\* self._db[subject_id] = rec
DbPut(d, s, rec) == [x \in (DOMAIN d) \cup {s} |-> IF x = s THEN rec ELSE d[x]]

\* TrustEngine._seed_data: Dr. Alice's baseline state, stamped with time.time()
SeedData(now) == [x \in {"alice"} |-> Record(SEED_SCORE, now)]

\* The activation record of a thread that is in no call.  Besides the locals of
\* the call it holds two history fields: stale (another write reached the
\* subject's record after this call read it, beyond the one noted in peer) and
\* peer (<<l>> when exactly one process_evidence call that read the same record
\* as this one committed evidence l since).
Idle ==
    [op |-> "idle", pc |-> "idle", subject_id |-> "alice", evidence_likelihood |-> 0,
     state |-> None, bootstrapped |-> FALSE, current_time |-> 0,
     prior_decayed |-> 0, posterior |-> 0, stale |-> FALSE, peer |-> <<>>]

\* Callers are anonymous: a call runs on t1 when t1 is free, else on t2.
CanCall(t) ==
    /\ th[t].pc = "idle"
    /\ t = "t1" \/ th["t1"].pc # "idle"
    /\ ncalls + nreq < MaxCalls

\* The outcome of a call, as its caller sees it.  History field cmp: the
\* outcome is an effective trust read from the subject's record as it is
\* stored now, and the clock was not set back since.
Outcome(op, s, raised, value, cmp) ==
    [op |-> op, subject_id |-> s, raised |-> raised, value |-> value, cmp |-> cmp]

\* variant: the attacker is taken to produce any evidence with probability
\* 0.999
LikelihoodCompromised_Pessimistic(evidence_likelihood) == 999

\* the attacker-model heuristic of process_evidence (line 129)
LikelihoodCompromised(evidence_likelihood) ==
    IF evidence_likelihood > 1 * LikelihoodScale THEN 1 ELSE 999

\* history: a write to s by `writer` (a thread, or "" for the seeding helper)
\* reaches the calls in flight on s
NoteWrite(s, writer) ==
    [u \in Threads |->
        IF u = writer \/ th[u].pc = "idle" \/ th[u].subject_id # s THEN th[u]
        ELSE IF /\ writer \in Threads
                /\ ~th[writer].stale /\ th[writer].peer = <<>>
                /\ ~th[u].stale /\ th[u].peer = <<>>
                /\ th[u].op = "pe"
               THEN [th[u] EXCEPT !.peer = <<th[writer].evidence_likelihood>>]
               ELSE [th[u] EXCEPT !.stale = TRUE]]

----------------------------------------------------------------------------
(* TrustEngine.get_effective_trust *)

\* lines 76-90 on the record `state` read from the store and the clock value
\* `current_time`: the floor for no record, else the decayed stored trust
\* variant: the stored score is returned as it is, without decay
EffectiveTrust_Stale(state, current_time) ==
    IF state = None THEN Returned(UNKNOWN_TRUST)
    ELSE IF current_time - state.last_update < 0 THEN CausalityError
    ELSE Returned(state.score)

EffectiveTrust(state, current_time) ==
    IF state = None THEN Returned(UNKNOWN_TRUST)
    ELSE LET stored_trust == state.score
             last_update_ts == state.last_update
             delta_t == calculate_time_delta(current_time, last_update_ts)
         IN  IF delta_t.raised THEN CausalityError
             ELSE Returned(decay_exact(stored_trust, delta_t.value, DECAY_LAMBDA))

\* lines 71-80: read the record; an unknown subject gets the floor at once
GetEffectiveTrust_Read(t, s) ==
    /\ CanCall(t)
    /\ LET state == DbGet(db, s)
       IN  IF state = None
             THEN /\ out' = Outcome("get", s, FALSE, UNKNOWN_TRUST, TRUE)
                  /\ UNCHANGED th
             ELSE /\ th' = [th EXCEPT ![t] =
                              [Idle EXCEPT !.op = "get", !.pc = "clock",
                                           !.subject_id = s, !.state = state]]
                  /\ UNCHANGED out
    /\ ncalls' = ncalls + 1
    /\ UNCHANGED <<clock, db, cache, resp, nreq, calc>>

\* variant: the read refreshes the record with the decayed score
GetEffectiveTrust_Return_WriteBack(t) ==
    /\ th[t].op = "get" /\ th[t].pc = "clock"
    /\ LET effective_trust == EffectiveTrust(th[t].state, clock)
           s == th[t].subject_id
       IN  IF effective_trust.raised
             THEN /\ out' = Outcome("get", s, TRUE, 0, FALSE)
                  /\ UNCHANGED db
             ELSE /\ out' = Outcome("get", s, FALSE, effective_trust.value, ~th[t].stale)
                  /\ db' = DbPut(db, s, Record(effective_trust.value, clock))
    /\ th' = [th EXCEPT ![t] = Idle]
    /\ UNCHANGED <<clock, cache, resp, ncalls, nreq, calc>>

\* variant: the time stamp is read from the store again at the clock reading,
\* while the score is the one read at the start of the call
GetEffectiveTrust_Return_Torn(t) ==
    /\ th[t].op = "get" /\ th[t].pc = "clock"
    /\ LET s == th[t].subject_id
           state == Record(th[t].state.score, DbGet(db, s).last_update)
           effective_trust == EffectiveTrust(state, clock)
       IN  IF effective_trust.raised
             THEN out' = Outcome("get", s, TRUE, 0, FALSE)
             ELSE out' = Outcome("get", s, FALSE, effective_trust.value, ~th[t].stale)
    /\ th' = [th EXCEPT ![t] = Idle]
    /\ UNCHANGED <<clock, db, cache, resp, ncalls, nreq, calc>>

\* lines 83-90: read the clock, take the time delta, decay, return
GetEffectiveTrust_Return(t) ==
    /\ th[t].op = "get" /\ th[t].pc = "clock"
    /\ LET effective_trust == EffectiveTrust(th[t].state, clock)
           s == th[t].subject_id
       IN  IF effective_trust.raised
             THEN out' = Outcome("get", s, TRUE, 0, FALSE)
             ELSE out' = Outcome("get", s, FALSE, effective_trust.value, ~th[t].stale)
    /\ th' = [th EXCEPT ![t] = Idle]
    /\ UNCHANGED <<clock, db, cache, resp, ncalls, nreq, calc>>

----------------------------------------------------------------------------
(* TrustEngine.process_evidence *)

\* lines 108-114: read the record, or bootstrap one stamped with time.time()
ProcessEvidence_Read(t, s, l) ==
    /\ CanCall(t)
    /\ LET found == DbGet(db, s)
           state == IF found = None THEN Record(BOOTSTRAP_SCORE, clock) ELSE found
       IN  th' = [th EXCEPT ![t] =
                     [Idle EXCEPT !.op = "pe", !.pc = "clock", !.subject_id = s,
                                  !.evidence_likelihood = l, !.state = state,
                                  !.bootstrapped = (found = None)]]
    /\ ncalls' = ncalls + 1
    /\ UNCHANGED <<clock, db, cache, out, resp, nreq, calc>>

\* variant: the Bayesian step is applied to the raw stored score
ProcessEvidence_Predict_RawPrior(t) ==
    /\ th[t].op = "pe" /\ th[t].pc = "clock"
    /\ LET stored_trust == th[t].state.score
           last_update_ts == th[t].state.last_update
           current_time == clock
           delta_t == calculate_time_delta(current_time, last_update_ts)
           prior_decayed == decay_exact(stored_trust, delta_t.value, DECAY_LAMBDA)
           posterior == calculate_posterior(stored_trust, th[t].evidence_likelihood,
                            LikelihoodCompromised(th[t].evidence_likelihood))
       IN  IF delta_t.raised
             THEN /\ th' = [th EXCEPT ![t] = Idle]
                  /\ out' = Outcome("pe", th[t].subject_id, TRUE, 0, FALSE)
             ELSE /\ th' = [th EXCEPT ![t].pc = "commit",
                                      ![t].current_time = current_time,
                                      ![t].prior_decayed = prior_decayed,
                                      ![t].posterior = posterior]
                  /\ UNCHANGED out
    /\ UNCHANGED <<clock, db, cache, resp, ncalls, nreq, calc>>

\* lines 115-131: read the clock, predict (decay), update (Bayes)
ProcessEvidence_Predict(t) ==
    /\ th[t].op = "pe" /\ th[t].pc = "clock"
    /\ LET stored_trust == th[t].state.score
           last_update_ts == th[t].state.last_update
           current_time == clock
           delta_t == calculate_time_delta(current_time, last_update_ts)
           prior_decayed == decay_exact(stored_trust, delta_t.value, DECAY_LAMBDA)
           posterior == calculate_posterior(prior_decayed, th[t].evidence_likelihood,
                            LikelihoodCompromised(th[t].evidence_likelihood))
       IN  IF delta_t.raised
             THEN /\ th' = [th EXCEPT ![t] = Idle]
                  /\ out' = Outcome("pe", th[t].subject_id, TRUE, 0, FALSE)
             ELSE /\ th' = [th EXCEPT ![t].pc = "commit",
                                      ![t].current_time = current_time,
                                      ![t].prior_decayed = prior_decayed,
                                      ![t].posterior = posterior]
                  /\ UNCHANGED out
    /\ UNCHANGED <<clock, db, cache, resp, ncalls, nreq, calc>>

\* lines 134-137: commit the new score and time stamp
ProcessEvidence_Commit(t) ==
    /\ th[t].op = "pe" /\ th[t].pc = "commit"
    /\ LET s == th[t].subject_id
       IN  /\ db' = DbPut(db, s, Record(th[t].posterior, th[t].current_time))
           /\ th' = [NoteWrite(s, t) EXCEPT ![t] = Idle]
           /\ out' = Outcome("pe", s, FALSE, 0, FALSE)
    /\ UNCHANGED <<clock, cache, resp, ncalls, nreq, calc>>

----------------------------------------------------------------------------
(* TrustEngine.set_trust_manually *)

\* lines 148-151: force a state, stamped with time.time()
SetTrustManually(s, score) ==
    /\ ncalls + nreq < MaxCalls
    /\ db' = DbPut(db, s, Record(score, clock))
    /\ th' = NoteWrite(s, "")
    /\ out' = Outcome("set", s, FALSE, 0, FALSE)
    /\ ncalls' = ncalls + 1
    /\ UNCHANGED <<clock, cache, resp, nreq, calc>>

----------------------------------------------------------------------------
(* src/components/pip.py *)

Objects == {"record_8842", "public_page", "record_0000"}

\* PIP._object_db: the base trust requirement of the known objects
ObjectDb == [o \in {"record_8842", "public_page"} |->
               IF o = "record_8842" THEN 600 ELSE 0]

\* PIP.get_object_metadata(object_id)['base_trust_requirement']
get_object_metadata(object_id) ==
    IF object_id \in DOMAIN ObjectDb THEN ObjectDb[object_id] ELSE 1 * BeliefScale

\* env_context dictionaries the callers pass (absent keys hold their defaults)
Contexts ==
    { [location |-> "hospital", network_security |-> "wpa3_enterprise"],
      [location |-> "cafe", network_security |-> "open"],
      [location |-> "unknown", network_security |-> "none"] }

\* PIP.get_environmental_risk(context), in tenths
get_environmental_risk(context) ==
    IF context.location = "hospital" \/ context.network_security = "wpa3_enterprise"
      THEN 1
    ELSE IF context.location = "cafe" \/ context.network_security = "open"
      THEN 9
    ELSE 5

----------------------------------------------------------------------------
(* src/core/policy_lrap.py *)

RiskScale == 2 * 5
AlphaScale == 2 * 5

LRAPResult(decision, threshold, is_lockdown, reason) ==
    [decision |-> decision, threshold |-> threshold,
     is_lockdown |-> is_lockdown, reason |-> reason]

\* variant: the risk lowers the threshold instead of raising it
calculate_threshold_Discount(base_requirement, risk_score, alpha) ==
    LET risk_factor == (1 * AlphaScale * RiskScale) - (alpha * risk_score)
    IN  RoundDiv(base_requirement * risk_factor, AlphaScale * RiskScale)

calculate_threshold(base_requirement, risk_score, alpha) ==
    LET risk_factor == (1 * AlphaScale * RiskScale) + (alpha * risk_score)
    IN  RoundDiv(base_requirement * risk_factor, AlphaScale * RiskScale)

\* variant: the threshold is capped at 1.0, so no lockdown is ever declared
evaluate_access_Capped(user_trust, base_requirement, risk_score, alpha) ==
    LET computed == calculate_threshold(base_requirement, risk_score, alpha)
        threshold == IF computed > 1 * BeliefScale THEN 1 * BeliefScale ELSE computed
    IN  IF user_trust >= threshold
          THEN LRAPResult(TRUE, threshold, FALSE, "PERMIT")
          ELSE LRAPResult(FALSE, threshold, FALSE, "DENY")

\* variant: the comparison with the threshold is strict
evaluate_access_Strict(user_trust, base_requirement, risk_score, alpha) ==
    LET threshold == calculate_threshold(base_requirement, risk_score, alpha)
    IN  IF threshold > 1 * BeliefScale
          THEN LRAPResult(FALSE, threshold, TRUE, "DYNAMIC LOCKDOWN")
        ELSE IF user_trust > threshold
          THEN LRAPResult(TRUE, threshold, FALSE, "PERMIT")
        ELSE LRAPResult(FALSE, threshold, FALSE, "DENY")

evaluate_access(user_trust, base_requirement, risk_score, alpha) ==
    LET threshold == calculate_threshold(base_requirement, risk_score, alpha)
    IN  IF threshold > 1 * BeliefScale
          THEN LRAPResult(FALSE, threshold, TRUE, "DYNAMIC LOCKDOWN")
        ELSE IF user_trust >= threshold
          THEN LRAPResult(TRUE, threshold, FALSE, "PERMIT")
        ELSE LRAPResult(FALSE, threshold, FALSE, "DENY")

----------------------------------------------------------------------------
(* src/simulation/reproduce_bug.py *)

\* V1_StaleSystem.get_trust: the stored value, whatever time has passed
V1_StaleSystem_get_trust(stored_trust, delta_t) == stored_trust

\* variant: the JIT system answers with the stored value too
V2_JITSystem_get_trust_Stale(stored_trust, delta_t) == stored_trust

\* V2_JITSystem.get_trust: decay applied on read
V2_JITSystem_get_trust(stored_trust, delta_t) ==
    decay_exact(stored_trust, delta_t, DECAY_LAMBDA)

\* run(): what the two systems answer for the parameters of lines 68-76
reproduce_bug_run ==
    LET initial_trust == 900
        t_base == 600
        delta_t == 30 * TimeScale
        risk_high == 8
        trust_v1 == V1_StaleSystem_get_trust(initial_trust, delta_t)
        trust_v2 == V2_JITSystem_get_trust(initial_trust, delta_t)
    IN  [trust_v1 |-> trust_v1,
         trust_v2 |-> trust_v2,
         result_v1 |-> evaluate_access(trust_v1, t_base, risk_high, ALPHA),
         result_v2 |-> evaluate_access(trust_v2, t_base, risk_high, ALPHA)]

----------------------------------------------------------------------------
(* src/components/pdp.py *)

\* PDP.decide: <<result>>, or <<>> when get_effective_trust raised
decide(d, now, subject_id, object_id, env_context) ==
    LET risk_score == get_environmental_risk(env_context)
        base_requirement == get_object_metadata(object_id)
        effective_trust == EffectiveTrust(DbGet(d, subject_id), now)
    IN  IF effective_trust.raised THEN <<>>
        ELSE << evaluate_access(effective_trust.value, base_requirement,
                                risk_score, ALPHA) >>

----------------------------------------------------------------------------
(* src/components/pep.py *)

CacheKey(subject_id, object_id) == <<subject_id, "::", object_id>>

\* PEP._enforce
Enforce(result, source) ==
    [status |-> IF result.decision THEN 200 ELSE 403,
     source |-> source,
     threshold |-> result.threshold,
     reason |-> result.reason,
     lockdown_active |-> result.is_lockdown]

\* the request ended in the exception get_effective_trust raised
RequestRaised ==
    [status |-> 0, source |-> "ValueError", threshold |-> 0, reason |-> "",
     lockdown_active |-> FALSE]

\* PEP.access_request
AccessRequest(subject_id, object_id, env_context, use_cache) ==
    /\ nreq < MaxRequests /\ ncalls + nreq < MaxCalls
    /\ nreq' = nreq + 1
    /\ LET request_time == clock
           cache_key == CacheKey(subject_id, object_id)
           hit == use_cache /\ cache_key \in DOMAIN cache
           decision_result == decide(db, clock, subject_id, object_id, env_context)
       IN  IF hit
             THEN /\ resp' = <<Enforce(cache[cache_key].result, "Cached Decision")>>
                  /\ UNCHANGED cache
           ELSE IF decision_result = <<>>
             THEN /\ resp' = <<RequestRaised>>
                  /\ UNCHANGED cache
           ELSE /\ cache' = IF use_cache
                              THEN [k \in (DOMAIN cache) \cup {cache_key} |->
                                      IF k = cache_key
                                        THEN [result |-> decision_result[1],
                                              time |-> request_time]
                                        ELSE cache[k]]
                              ELSE cache
                /\ resp' = <<Enforce(decision_result[1], "Live Calculation")>>
    /\ UNCHANGED <<clock, db, th, out, ncalls, calc>>

----------------------------------------------------------------------------
(* src/simulation/scenario_alice.py *)

\* a belief given in units of 1/one, in whole thousandths (rounded down: a
\* threshold that is a whole number of thousandths compares the same with
\* both)
InThousandths(one, belief) == belief \div (one \div BeliefScale)

\* run(), steps 2 and 3, for a record that holds stored_trust (in units of
\* 1/one): the cafe request dt_request after the record was written, the MFA
\* evidence dt_mfa after it, and the cafe request again with no time elapsed
\* since the MFA update.  Each step is the code of the engine and the PDP on
\* these values: get_effective_trust decays the stored trust (lines 84-90),
\* process_evidence decays, updates and commits (lines 118-137), decide
\* evaluates the policy for record_8842 in the cafe (pdp.py lines 70-94).
scenario_alice_recovery(one, stored_trust, dt_request, dt_mfa) ==
    LET object_id == "record_8842"
        ctx_cafe == [location |-> "cafe", network_security |-> "open"]
        mfa_likelihood == 999 * LikelihoodScale
        Decide(effective_trust) ==
            evaluate_access(InThousandths(one, effective_trust),
                            get_object_metadata(object_id),
                            get_environmental_risk(ctx_cafe), ALPHA)
        trust_at_request == decay_exact(stored_trust, dt_request, DECAY_LAMBDA)
        prior_decayed == decay_exact(stored_trust, dt_mfa, DECAY_LAMBDA)
        posterior == calculate_posterior_in(one, prior_decayed, mfa_likelihood,
                                            LikelihoodCompromised(mfa_likelihood))
        new_trust == decay_exact(posterior, 0, DECAY_LAMBDA)
    IN  [one |-> one,
         trust_at_request |-> trust_at_request,
         cafe |-> Decide(trust_at_request),
         prior_decayed |-> prior_decayed,
         new_trust |-> new_trust,
         cafe_post_mfa |-> Decide(new_trust)]

----------------------------------------------------------------------------
(* time.time(): the wall clock advances, and may be set back *)

Tick ==
    /\ clock + TickSize <= MaxTicks * TickSize
    /\ clock' = clock + TickSize
    /\ UNCHANGED <<db, th, cache, out, resp, ncalls, nreq, calc>>

ClockSetBack ==
    /\ clock - TickSize >= 0
    /\ clock' = clock - TickSize
    /\ out' = [out EXCEPT !.cmp = FALSE]
    /\ UNCHANGED <<db, th, cache, resp, ncalls, nreq, calc>>

----------------------------------------------------------------------------

NoCache == [k \in {} |-> 0]

\* no function of src/core has been called directly
NoCall == [fn |-> "none", args |-> <<>>, raised |-> FALSE, value |-> 0]

Init ==
    /\ clock = 0
    /\ db = SeedData(0)
    /\ th = [t \in Threads |-> Idle]
    /\ cache = NoCache
    /\ out = Outcome("none", "alice", FALSE, 0, FALSE)
    /\ resp = <<>>
    /\ ncalls = 0
    /\ nreq = 0
    /\ calc = NoCall

\* the steps of the trust-engine calls the caller threads T make for the
\* subjects S with the evidence likelihoods L
EngineSteps(T, S, L) ==
    \/ \E t \in T, s \in S : GetEffectiveTrust_Read(t, s)
    \/ \E t \in T : GetEffectiveTrust_Return(t)
    \/ \E t \in T, s \in S, l \in L : ProcessEvidence_Read(t, s, l)
    \/ \E t \in T : ProcessEvidence_Predict(t)
    \/ \E t \in T : ProcessEvidence_Commit(t)

\* One caller of the trust engine, as the simulations run it: its calls and
\* the seeding helper, while the clock moves.
Next ==
    \/ Tick
    \/ ClockSetBack
    \/ EngineSteps({"t1"}, Subjects, Likelihoods)
    \/ \E s \in Subjects, score \in Scores : SetTrustManually(s, score)

Spec == Init /\ [][Next]_vars

\* The case study: requests through the PEP for any subject, while time passes
\* and Dr. Alice's trust is read, re-seeded and raised by MFA evidence
\* (likelihood 999.0).
GatewayNext ==
    \/ Tick
    \/ EngineSteps({"t1"}, {"alice"}, {999000})
    \/ \E score \in Scores : SetTrustManually("alice", score)
    \/ \E s \in Subjects, o \in Objects, c \in Contexts, u \in BOOLEAN :
          AccessRequest(s, o, c, u)

GatewaySpec == Init /\ [][GatewayNext]_vars

\* Two callers whose trust-engine calls interleave step by step.
ConcurrentNext ==
    \/ Tick
    \/ ClockSetBack
    \/ EngineSteps(Threads, Subjects, Likelihoods)

ConcurrentSpec == Init /\ [][ConcurrentNext]_vars

----------------------------------------------------------------------------
(* Direct calls of the functions of src/core, as the tests and the          *)
(* benchmark make them                                                      *)

\* beliefs, in units of 1/ExpScale: 0, 0.25, 0.5, 0.75, 0.9, 1
KernelBeliefs ==
    {0, ExpScale \div 4, ExpScale \div 2, 3 * (ExpScale \div 4),
     9 * (ExpScale \div 10), ExpScale}

\* elapsed times (tenths): 0.1, 1, whole ticks, and two negative ones
KernelDeltas == {0 - TickSize, 0 - 1, 1, 10} \cup {k * TickSize : k \in 0..MaxDelta}

\* decay rates (hundredths): none, 0.02, config.LAMBDA
KernelRates == {0, 2, DECAY_LAMBDA}

\* switch thresholds of decay_hybrid: the default 0.1, and 2.0
KernelThresholds == {XScale \div 10, 2 * XScale}

\* policy inputs: trust and base requirement (thousandths), risk and alpha (tenths)
PolicyTrusts == {0, 500, 750, 1000}
PolicyBases == {0, 300, 600, 900, 1000}
PolicyRisks == {0, 1, 5, 9, 10}
PolicyAlphas == {0, 5, 10, 20}

\* priors in thousandths, likelihoods in thousandths (a density may exceed 1)
PosteriorPriors == {0, 1, 250, 500, 750, 877, 995, 999, BeliefScale}
PosteriorLikelihoods == {1, 3, 457, 500, 999, 2000, 999000}

\* values given to the TrustBeliefState constructor, in units of 1e-9: inside
\* [0, 1], inside the tolerance band on either side, just outside it, far out
BeliefStateValues ==
    {0 - (ExpScale \div 2), 0 - 2, 0 - 1, 0, 1, ExpScale \div 2, ExpScale - 1,
     ExpScale, ExpScale + 1, ExpScale + 2, 3 * (ExpScale \div 2)}

\* stored beliefs of the recovery scenario, each with its unit: thousandths
\* for the beliefs of the case study, millionths for beliefs that long
\* inactivity has brought close to zero
FineScale == 1000 * BeliefScale
RecoveryBeliefs ==
    {<<BeliefScale, b>> : b \in {1, 10, 500, 680, 750, 869, 900}}
      \cup {<<FineScale, b>> : b \in {1, 5, 6, 7, 8, 10, 100, 1000}}
RecoveryDelays == {0, TickSize, 2 * TickSize}

\* arguments outside the domain of the function: priors that are no
\* probabilities, a negative likelihood
MalformedPriors == {0 - 500, 1500}
MalformedLikelihoods == {0 - 500}

\* The functions are pure: what a call returns does not depend on the calls
\* made before it, so a behaviour makes one call.

\* the call fn(args) returned value
Called(fn, args, value) == [fn |-> fn, args |-> args, raised |-> FALSE, value |-> value]

Call_decay_exact(b, dt, r) ==
    /\ calc.fn = "none"
    /\ calc' = Called("decay_exact", <<b, dt, r>>, decay_exact(b, dt, r))
    /\ UNCHANGED <<clock, db, th, cache, out, resp, ncalls, nreq>>

Call_decay_taylor(b, dt, r) ==
    /\ calc.fn = "none"
    /\ calc' = Called("decay_taylor", <<b, dt, r>>, decay_taylor(b, dt, r))
    /\ UNCHANGED <<clock, db, th, cache, out, resp, ncalls, nreq>>

Call_decay_hybrid(b, dt, r, threshold) ==
    /\ calc.fn = "none"
    /\ calc' = Called("decay_hybrid", <<b, dt, r, threshold>>,
                      decay_hybrid(b, dt, r, threshold))
    /\ UNCHANGED <<clock, db, th, cache, out, resp, ncalls, nreq>>

Call_calculate_threshold(base, risk, alpha) ==
    /\ calc.fn = "none"
    /\ calc' = Called("calculate_threshold", <<base, risk, alpha>>,
                      calculate_threshold(base, risk, alpha))
    /\ UNCHANGED <<clock, db, th, cache, out, resp, ncalls, nreq>>

Call_evaluate_access(trust, base, risk, alpha) ==
    /\ calc.fn = "none"
    /\ calc' = Called("evaluate_access", <<trust, base, risk, alpha>>,
                      evaluate_access(trust, base, risk, alpha))
    /\ UNCHANGED <<clock, db, th, cache, out, resp, ncalls, nreq>>

Call_calculate_posterior(prior, likelihood_honest, likelihood_compromised) ==
    /\ calc.fn = "none"
    /\ calc' = Called("calculate_posterior",
                      <<prior, likelihood_honest, likelihood_compromised>>,
                      calculate_posterior(prior, likelihood_honest,
                                          likelihood_compromised))
    /\ UNCHANGED <<clock, db, th, cache, out, resp, ncalls, nreq>>

Call_TrustBeliefState(value) ==
    /\ calc.fn = "none"
    /\ calc' = LET made == TrustBeliefState(value)
               IN  [fn |-> "TrustBeliefState", args |-> <<value>>,
                    raised |-> made.raised, value |-> made.value]
    /\ UNCHANGED <<clock, db, th, cache, out, resp, ncalls, nreq>>

Call_reproduce_bug_run ==
    /\ calc.fn = "none"
    /\ calc' = Called("reproduce_bug.run", <<>>, reproduce_bug_run)
    /\ UNCHANGED <<clock, db, th, cache, out, resp, ncalls, nreq>>

Call_scenario_alice_recovery(one, stored_trust, dt_request, dt_mfa) ==
    /\ calc.fn = "none"
    /\ calc' = Called("scenario_alice.recovery",
                      <<one, stored_trust, dt_request, dt_mfa>>,
                      scenario_alice_recovery(one, stored_trust, dt_request, dt_mfa))
    /\ UNCHANGED <<clock, db, th, cache, out, resp, ncalls, nreq>>

KernelNext ==
    \/ \E b \in KernelBeliefs, dt \in KernelDeltas, r \in KernelRates :
          Call_decay_exact(b, dt, r)
    \/ \E b \in KernelBeliefs, dt \in KernelDeltas, r \in KernelRates :
          Call_decay_taylor(b, dt, r)
    \/ \E b \in KernelBeliefs, dt \in KernelDeltas, r \in KernelRates,
           threshold \in KernelThresholds :
          Call_decay_hybrid(b, dt, r, threshold)
    \/ \E base \in PolicyBases, risk \in PolicyRisks, alpha \in PolicyAlphas :
          Call_calculate_threshold(base, risk, alpha)
    \/ \E base \in PolicyBases, risk \in PolicyRisks, alpha \in PolicyAlphas :
          \E trust \in PolicyTrusts \cup {calculate_threshold(base, risk, alpha)} :
             Call_evaluate_access(trust, base, risk, alpha)
    \/ \E prior \in PosteriorPriors \cup MalformedPriors,
           lh \in PosteriorLikelihoods \cup MalformedLikelihoods,
           lc \in PosteriorLikelihoods :
          \* a malformed prior goes with likelihoods up to 2.0, which keeps
          \* the products of the call within 32 bits
          /\ \/ prior \in PosteriorPriors
             \/ lh <= 2 * LikelihoodScale /\ lc <= 2 * LikelihoodScale
          /\ Call_calculate_posterior(prior, lh, lc)
    \/ \E value \in BeliefStateValues : Call_TrustBeliefState(value)
    \/ Call_reproduce_bug_run
    \/ \E b \in RecoveryBeliefs, dt_request \in RecoveryDelays,
           dt_mfa \in RecoveryDelays :
          /\ dt_request <= dt_mfa
          /\ Call_scenario_alice_recovery(b[1], b[2], dt_request, dt_mfa)

KernelSpec == Init /\ [][KernelNext]_vars

----------------------------------------------------------------------------
(* Steps of the calls, recognised from the states before and after *)

\* thread t's get_effective_trust call returns or raises in this step
GetEnds(t) == th[t].op = "get" /\ th'[t].op = "idle"

\* thread t's get_effective_trust call reads a record in this step
GetReadsRecord(t) == th[t].op = "idle" /\ th'[t].op = "get"

\* a get_effective_trust call for a subject without a record runs in this step
GetOfUnknown == ncalls' = ncalls + 1 /\ th' = th /\ out'.op = "get"

\* thread t's process_evidence call reads the clock in this step
PredictStep(t) == th[t].op = "pe" /\ th[t].pc = "clock" /\ th'[t].pc # "clock"

\* thread t's process_evidence call commits in this step
CommitStep(t) == th[t].op = "pe" /\ th[t].pc = "commit" /\ th'[t].op = "idle"

\* set_trust_manually runs in this step
SetStep == ncalls' = ncalls + 1 /\ out'.op = "set"

\* the Bayesian step of process_evidence on prior p with evidence likelihood l
BayesStep(p, l) == calculate_posterior(p, l, LikelihoodCompromised(l))

----------------------------------------------------------------------------
(* C1 *)

\* C1: get_effective_trust never writes to the trust store: every step of a
\* get_effective_trust call, for a subject with or without a record and at any
\* clock value, leaves the store exactly as it was.
C1_GetNeverWrites ==
    [][ (GetOfUnknown \/ \E t \in Threads : GetReadsRecord(t) \/ GetEnds(t))
          => db' = db ]_vars

\* a read returned a decayed value while the store still holds the score as written
C1_Witness ==
    /\ out.op = "get" /\ ~out.raised /\ out.cmp
    /\ out.subject_id \in DOMAIN db
    /\ out.value # db[out.subject_id].score

----------------------------------------------------------------------------
(* C2 *)

\* the record process_evidence(l) at clock value now makes of record r, as a
\* set: empty when the call raises the causality error
SerialStep(r, l, now) ==
    IF now < r.last_update THEN {}
    ELSE { Record(BayesStep(decay_exact(r.score, now - r.last_update, DECAY_LAMBDA), l),
                  now) }

\* C2: no lost update.  When two process_evidence calls on one subject that
\* read the same record both commit, the record stored after the second commit
\* is the one that applying the two updates one after the other, in one of the
\* two orders, produces.
C2_NoLostUpdate ==
    [][ \A t \in Threads :
          (CommitStep(t) /\ ~th[t].stale /\ th[t].peer # <<>>)
          => LET s == th[t].subject_id
                 mine == Record(th[t].posterior, th[t].current_time)
             IN  db'[s] \in
                   SerialStep(db[s], th[t].evidence_likelihood, th[t].current_time)
                     \cup SerialStep(mine, th[t].peer[1], db[s].last_update) ]_vars

----------------------------------------------------------------------------
(* C3 *)

\* C3: the stored lastUpdate of a subject never decreases across writes.
C3_LastUpdateMonotone ==
    [][ \A s \in DOMAIN db : db'[s].last_update >= db[s].last_update ]_vars

----------------------------------------------------------------------------
(* C4 *)

\* C4: in every reachable state every stored belief lies in [0, 1].
C4_BeliefIsProbability ==
    \A s \in DOMAIN db : 0 <= db[s].score /\ db[s].score <= 1 * BeliefScale

----------------------------------------------------------------------------
(* C5 *)

\* C5: a causality violation is an error that changes nothing.  When a
\* get_effective_trust or process_evidence call reads a clock value earlier
\* than the lastUpdate of the record it read, the call ends there with the
\* causality error, returns no value, and the store is left as it was.
C5_CausalityErrorChangesNothing ==
    [][ \A t \in Threads :
          ( /\ th[t].pc = "clock" /\ th'[t].pc # "clock"
            /\ clock < th[t].state.last_update )
          => /\ th'[t] = Idle
             /\ out' = Outcome(th[t].op, th[t].subject_id, TRUE, 0, FALSE)
             /\ db' = db ]_vars

\* process_evidence raised the causality error: the record is stamped later
\* than the clock reads
C5_Witness ==
    /\ out.op = "pe" /\ out.raised
    /\ out.subject_id \in DOMAIN db
    /\ clock < db[out.subject_id].last_update

----------------------------------------------------------------------------
(* C6 *)

\* some existing record's lastUpdate changes in this step
LastUpdateChanges == \E s \in DOMAIN db : db'[s].last_update # db[s].last_update

----------------------------------------------------------------------------
(* C7 *)

\* C7: process_evidence is predict, then update, then commit.  The call reads
\* the clock once (now); a successful call on a record (b, t) stores
\* (posterior, now), the posterior being the Bayesian step on
\* decay_exact(b, now - t, LAMBDA), not on b.
C7_PredictUpdateCommit ==
    [][ \A t \in Threads :
          /\ (PredictStep(t) /\ th'[t].pc = "commit")
               => th'[t].current_time = clock
          /\ (CommitStep(t) /\ ~th[t].bootstrapped)
               => LET s == th[t].subject_id
                      now == th[t].current_time
                      After(r) ==
                        Record(BayesStep(decay_exact(r.score, now - r.last_update,
                                                     DECAY_LAMBDA),
                                         th[t].evidence_likelihood), now)
                  IN  /\ db'[s] = After(th[t].state)
                      /\ ~th[t].stale => db'[s] = After(db[s]) ]_vars

\* MFA evidence was committed for Dr. Alice one tick after her record was
\* seeded, and the stored posterior is the one of the decayed prior
C7_Witness ==
    /\ out.op = "pe" /\ ~out.raised /\ out.subject_id = "alice"
    /\ ncalls = 1
    /\ db["alice"] = Record(BayesStep(decay_exact(SEED_SCORE, TickSize, DECAY_LAMBDA),
                                      500), TickSize)
    /\ db["alice"].score # BayesStep(SEED_SCORE, 500)

----------------------------------------------------------------------------
(* C8 *)

\* C8: process_evidence on a subject without a record bootstraps it with the
\* neutral belief 0.5: the call always leaves a record, holding the posterior
\* of the prior 0.5 itself (decayed over no elapsed time) and the clock value
\* the call read.
C8_BootstrapUndecayed ==
    [][ \A t \in Threads :
          (th[t].op = "pe" /\ th[t].bootstrapped /\ th'[t].op = "idle")
          => /\ ~out'.raised
             /\ th[t].subject_id \in DOMAIN db'
             /\ db'[th[t].subject_id] =
                  Record(BayesStep(BOOTSTRAP_SCORE, th[t].evidence_likelihood),
                         th[t].current_time) ]_vars

----------------------------------------------------------------------------
(* C9 *)

\* C9: get_effective_trust returns, for a record (b, t) read at clock value
\* now >= t, decay_exact(b, now - t, LAMBDA) (b itself when now = t), and the
\* floor 0.0 for a subject without a record.
C9_ReturnsExactDecay ==
    [][ /\ \A t \in Threads :
              (GetEnds(t) /\ clock >= th[t].state.last_update)
              => LET b == th[t].state.score
                     dt == clock - th[t].state.last_update
                 IN  /\ ~out'.raised /\ out'.op = "get"
                     /\ out'.subject_id = th[t].subject_id
                     /\ out'.value = decay_exact(b, dt, DECAY_LAMBDA)
                     /\ dt = 0 => out'.value = b
        /\ \A t \in Threads, s \in Subjects :
              (GetReadsRecord(t) /\ th'[t].subject_id = s)
              => s \in DOMAIN db /\ th'[t].state = db[s]
        /\ GetOfUnknown
              => /\ out'.subject_id \notin DOMAIN db
                 /\ ~out'.raised /\ out'.value = 0 ]_vars

\* Dr. Alice's seeded trust 0.75 was read a tick after it was stored and came
\* back decayed
C9_Witness ==
    /\ out.op = "get" /\ ~out.raised /\ out.subject_id = "alice"
    /\ db["alice"] = Record(SEED_SCORE, 0)
    /\ out.value = decay_exact(SEED_SCORE, TickSize, DECAY_LAMBDA)
    /\ out.value < SEED_SCORE

----------------------------------------------------------------------------
(* C10 *)

\* C10: without new evidence trust only decays.  Of two get_effective_trust
\* calls on one subject, with no write to the subject and no step back of the
\* clock between them, the second returns no more than the first.
C10_ReadsNonIncreasing ==
    [][ \A t \in Threads :
          ( /\ GetEnds(t) /\ ~out'.raised /\ ~th[t].stale
            /\ out.op = "get" /\ ~out.raised /\ out.cmp
            /\ out.subject_id = th[t].subject_id )
          => out'.value <= out.value ]_vars

----------------------------------------------------------------------------
(* C11 *)

\* C11: consistent snapshot on read.  A get_effective_trust call takes the
\* (score, last_update) pair of its subject out of the store in one step, keeps
\* that pair while process_evidence commits for the subject interleave, and
\* computes its result from it; and every write puts a pair into the store in
\* one step.  So the result never mixes the score of one write with the
\* last_update of another.
C11_ConsistentSnapshot ==
    [][ /\ \A t \in Threads :
              /\ GetReadsRecord(t)
                   => /\ th'[t].subject_id \in DOMAIN db
                      /\ th'[t].state = db[th'[t].subject_id]
              /\ (th[t].op = "get" /\ th'[t].op = "get")
                   => th'[t].state = th[t].state
              /\ GetEnds(t)
                   => IF clock < th[t].state.last_update THEN out'.raised
                      ELSE /\ ~out'.raised
                           /\ out'.value =
                                decay_exact(th[t].state.score,
                                            clock - th[t].state.last_update,
                                            DECAY_LAMBDA)
        /\ \A s \in DOMAIN db' :
              DbGet(db, s) # db'[s]
              => \E u \in Threads :
                    /\ CommitStep(u) /\ th[u].subject_id = s
                    /\ db'[s] = Record(th[u].posterior, th[u].current_time) ]_vars

\* a read of Dr. Alice's trust took the seeded pair (0.75, 0), evidence was
\* committed for her a tick later, and the read then returned the seeded score
\* decayed over that tick
C11_Witness ==
    /\ out.op = "get" /\ ~out.raised /\ ~out.cmp /\ out.subject_id = "alice"
    /\ ncalls = 2
    /\ db["alice"].last_update = TickSize
    /\ db["alice"].score # SEED_SCORE
    /\ out.value = decay_exact(SEED_SCORE, TickSize, DECAY_LAMBDA)

----------------------------------------------------------------------------
(* C12 *)

\* 100 * base * (1 + alpha * risk): the threshold of the policy, exactly, in
\* units of 1/(BeliefScale * AlphaScale * RiskScale)
ExactThreshold(base, risk, alpha) ==
    base * ((1 * AlphaScale * RiskScale) + (alpha * risk))

\* the same unit for a trust value or a threshold given in thousandths
InThresholdUnits(v) == v * (AlphaScale * RiskScale)

\* C12: evaluate_access has three outcomes, fixed by threshold = base * (1 +
\* alpha * risk): is_lockdown holds exactly when threshold > 1.0, and then the
\* decision is false whatever the trust; otherwise is_lockdown is false and the
\* decision is true exactly when trust >= threshold.  The threshold reported
\* is the computed one, not capped at 1.0.
C12_ThreeOutcomes ==
    calc.fn = "evaluate_access"
    => LET trust == calc.args[1]
           threshold == ExactThreshold(calc.args[2], calc.args[3], calc.args[4])
           result == calc.value
       IN  /\ ~calc.raised
           /\ InThresholdUnits(result.threshold) = threshold
           /\ result.is_lockdown <=> (threshold > InThresholdUnits(1 * BeliefScale))
           /\ result.is_lockdown => ~result.decision
           /\ ~result.is_lockdown
                => (result.decision <=> (InThresholdUnits(trust) >= threshold))

\* a subject of perfect trust 1.0 was denied by a lockdown, and the threshold
\* reported is above 1.0
C12_Witness ==
    /\ calc.fn = "evaluate_access"
    /\ calc.args[1] = 1 * BeliefScale
    /\ calc.value.is_lockdown /\ ~calc.value.decision
    /\ calc.value.threshold > 1 * BeliefScale

----------------------------------------------------------------------------
(* C13 *)

\* evaluate_access was called with a trust equal to the threshold of its
\* other arguments
AtBoundary ==
    /\ calc.fn = "evaluate_access"
    /\ InThresholdUnits(calc.args[1])
         = ExactThreshold(calc.args[2], calc.args[3], calc.args[4])

\* C13, as the specification states it: for all base, risk and alpha,
\* evaluate_access with a trust equal to the computed threshold returns
\* decision = true.
C13_BoundaryAlwaysGrants == AtBoundary => calc.value.decision

\* C13: boundary inclusiveness below the lockdown.  evaluate_access with a
\* trust equal to the computed threshold returns decision = true when that
\* threshold is at most 1.0, and the lockdown denial (decision = false) when it
\* is above 1.0.
C13_BoundaryGrantsUnlessLockdown ==
    AtBoundary
    => IF calc.args[1] <= 1 * BeliefScale
         THEN calc.value.decision /\ ~calc.value.is_lockdown
         ELSE ~calc.value.decision /\ calc.value.is_lockdown

\* a trust of exactly the threshold, strictly between 0 and 1, was granted
C13_Witness ==
    /\ AtBoundary
    /\ 0 < calc.args[1] /\ calc.args[1] < 1 * BeliefScale
    /\ calc.value.decision

----------------------------------------------------------------------------
(* C14 *)

\* C14: calculate_threshold is non-decreasing in risk and in alpha: for base
\* in [0, 1], risk in [0, 1] and alpha >= 0, no larger risk and no larger alpha
\* gives a smaller threshold.
C14_ThresholdMonotone ==
    (/\ calc.fn = "calculate_threshold"
     /\ 0 <= calc.args[1] /\ calc.args[1] <= 1 * BeliefScale
     /\ 0 <= calc.args[2] /\ calc.args[2] <= 1 * RiskScale
     /\ 0 <= calc.args[3])
    => LET base == calc.args[1]
           risk == calc.args[2]
           alpha == calc.args[3]
       IN  /\ ~calc.raised
           /\ \A r2 \in PolicyRisks :
                 r2 >= risk => calculate_threshold(base, r2, alpha) >= calc.value
           /\ \A a2 \in PolicyAlphas :
                 a2 >= alpha => calculate_threshold(base, risk, a2) >= calc.value

\* a threshold was computed that the highest risk makes strictly larger
C14_Witness ==
    /\ calc.fn = "calculate_threshold"
    /\ calc.args[1] > 0 /\ calc.args[3] > 0 /\ calc.args[2] < 1 * RiskScale
    /\ calc.value < calculate_threshold(calc.args[1], 1 * RiskScale, calc.args[3])

----------------------------------------------------------------------------
(* C15 *)

\* the latest direct call is fn(belief, dt, rate ...) with a belief in [0, 1]
\* and a rate >= 0
DecayCall(fn) ==
    /\ calc.fn = fn
    /\ 0 <= calc.args[1] /\ calc.args[1] <= 1 * ExpScale
    /\ 0 <= calc.args[3]

\* C15: decay_exact rejects a negative elapsed time: every call with dt < 0
\* fails with the causality error and returns no value.
C15_NegativeDeltaRejected ==
    (DecayCall("decay_exact") /\ calc.args[2] < 0) => calc.raised

----------------------------------------------------------------------------
(* C16 *)

\* C16: for belief in [0, 1], rate >= 0 and dt >= 0, decay_exact(belief, dt,
\* rate) lies in [0, belief], is belief itself at dt = 0, and is non-increasing
\* in dt.
C16_ExactDecayBounded ==
    (DecayCall("decay_exact") /\ calc.args[2] >= 0)
    => LET b == calc.args[1]
           dt == calc.args[2]
           r == calc.args[3]
       IN  /\ ~calc.raised
           /\ 0 <= calc.value /\ calc.value <= b
           /\ dt = 0 => calc.value = b
           /\ \A dt2 \in KernelDeltas :
                 dt2 >= dt => decay_exact(b, dt2, r) <= calc.value

\* a positive belief decayed over a positive time to a value strictly between
\* 0 and the belief, and a longer time decays it strictly further
C16_Witness ==
    /\ DecayCall("decay_exact")
    /\ calc.args[2] > 0 /\ calc.args[3] > 0
    /\ 0 < calc.value /\ calc.value < calc.args[1]
    /\ decay_exact(calc.args[1], calc.args[2] + TickSize, calc.args[3]) < calc.value

----------------------------------------------------------------------------
(* C17 *)

\* C17: decay_taylor is floored at zero: for belief in [0, 1], rate >= 0 and
\* dt >= 0 it returns belief * (1 - rate * dt) when rate * dt < 1 (belief
\* itself at dt = 0) and exactly 0 when rate * dt >= 1; the result is never
\* negative and never above belief.
C17_TaylorFloored ==
    (DecayCall("decay_taylor") /\ calc.args[2] >= 0)
    => LET b == calc.args[1]
           dt == calc.args[2]
           x == calc.args[3] * calc.args[2]
       IN  /\ ~calc.raised
           /\ x >= 1 * XScale => calc.value = 0
           /\ x < 1 * XScale => calc.value = (b \div XScale) * (XScale - x)
           /\ dt = 0 => calc.value = b
           /\ 0 <= calc.value /\ calc.value <= b

\* a positive belief was floored to 0 because rate * dt had passed 1
C17_Witness ==
    /\ DecayCall("decay_taylor")
    /\ calc.args[1] > 0
    /\ calc.args[3] * calc.args[2] > 1 * XScale
    /\ calc.value = 0

----------------------------------------------------------------------------
(* C18 *)

\* C18: decay_hybrid selects between the two decay functions by x = rate * dt:
\* for belief in [0, 1], rate >= 0, dt >= 0 and a switch threshold > 0 it
\* returns what decay_taylor returns when x < threshold and what decay_exact
\* returns otherwise.
C18_HybridSelects ==
    (DecayCall("decay_hybrid") /\ calc.args[2] >= 0 /\ calc.args[4] > 0)
    => LET b == calc.args[1]
           dt == calc.args[2]
           r == calc.args[3]
       IN  /\ ~calc.raised
           /\ calc.value = IF r * dt < calc.args[4] THEN decay_taylor(b, dt, r)
                           ELSE decay_exact(b, dt, r)

----------------------------------------------------------------------------
(* C19 *)

\* (x^2 / 2) * b rounded down, for x in units of 1/XScale
LagrangeBound(b, x) == MulDivQR(b, x * x, 2 * XScale * XScale)[1]

\* C19: the Lagrange bound of the approximation: for belief b in [0, 1] and
\* x = rate * dt >= 0, the results of decay_exact and decay_taylor differ by
\* no more than (x^2 / 2) * b.
C19_LagrangeErrorBound ==
    (DecayCall("decay_exact") /\ calc.args[2] >= 0)
    => LET b == calc.args[1]
           dt == calc.args[2]
           r == calc.args[3]
           diff == calc.value - decay_taylor(b, dt, r)
       IN  /\ diff <= LagrangeBound(b, r * dt)
           /\ 0 - diff <= LagrangeBound(b, r * dt)

\* the benchmark's case rate = 0.05, dt = 0.1 (x = 0.005) on belief 1.0: the
\* exact value is above the Taylor value, by less than the bound
C19_Witness ==
    /\ DecayCall("decay_exact")
    /\ calc.args = <<1 * ExpScale, 1, DECAY_LAMBDA>>
    /\ calc.value > decay_taylor(1 * ExpScale, 1, DECAY_LAMBDA)
    /\ calc.value - decay_taylor(1 * ExpScale, 1, DECAY_LAMBDA)
         < LagrangeBound(1 * ExpScale, DECAY_LAMBDA)

----------------------------------------------------------------------------
(* C20 *)

\* the bound on |posterior - p| that the roundings of calculate_posterior
\* allow, times 2 * 10^(FloatDigits - 1): each of the two products, the
\* complement and the sum is off by at most half a unit in its last place
\* (relative error 10^(1 - FloatDigits) / 2), and the quotient by half a unit
RoundingSlack(p) == (4 * p) + (10 ^ (FloatDigits - 1))

EqualLikelihoodCall ==
    /\ calc.fn = "calculate_posterior"
    /\ calc.args[1] \in 0..BeliefScale
    /\ calc.args[2] > 0
    /\ calc.args[2] = calc.args[3]

----------------------------------------------------------------------------
(* C21 *)

\* a call of calculate_posterior with a prior in [0, 1] and two positive
\* likelihoods
ValidPosteriorCall ==
    /\ calc.fn = "calculate_posterior"
    /\ calc.args[1] \in 0..BeliefScale
    /\ calc.args[2] > 0
    /\ calc.args[3] > 0

\* C21: for a prior in [0, 1] and positive likelihoods, calculate_posterior
\* returns a value in [0, 1]
C21_PosteriorIsProbability ==
    ValidPosteriorCall =>
        /\ ~calc.raised
        /\ calc.value >= 0
        /\ calc.value <= 1 * BeliefScale

\* C21 witness: a call with a prior strictly inside (0, 1) and different
\* likelihoods has returned a value strictly inside (0, 1) other than the prior
C21_Witness ==
    /\ ValidPosteriorCall
    /\ calc.args[1] > 0
    /\ calc.args[1] < BeliefScale
    /\ calc.args[2] # calc.args[3]
    /\ calc.value > 0
    /\ calc.value < BeliefScale
    /\ calc.value # calc.args[1]

----------------------------------------------------------------------------
(* C22 *)

\* C22: calculate_posterior never returns a value outside [0, 1] (the
\* tolerance 1e-9 is below the resolution of beliefs); it raises instead
C22_MalformedRejected ==
    (calc.fn = "calculate_posterior" /\ ~calc.raised) =>
        (calc.value >= 0 /\ calc.value <= 1 * BeliefScale)

----------------------------------------------------------------------------
(* C23 *)

\* C23: TrustBeliefState(v) raises for every v outside [-1e-9, 1 + 1e-9];
\* for v inside that band it holds v clamped into [0, 1]; so every
\* TrustBeliefState that was constructed holds a value in [0, 1]
C23_ValidatesOnConstruction ==
    calc.fn = "TrustBeliefState" =>
        LET v == calc.args[1]
            one == 1 * ExpScale
        IN  /\ (v < 0 - 1 \/ v > one + 1) => calc.raised
            /\ (0 - 1 <= v /\ v <= one + 1) =>
                  /\ ~calc.raised
                  /\ calc.value = (IF v < 0 THEN 0 ELSE IF v > one THEN one ELSE v)
            /\ ~calc.raised => (0 <= calc.value /\ calc.value <= one)

\* C23 witness: a value inside the tolerance band but outside [0, 1] was
\* accepted and clamped
C23_Witness ==
    /\ calc.fn = "TrustBeliefState"
    /\ ~calc.raised
    /\ calc.args[1] # calc.value

----------------------------------------------------------------------------
(* C24 *)

\* the decisions of the stale-trust scenario: the threshold is 0.84, the
\* decayed trust is below it and denied, the undecayed 0.90 is granted
StaleTrustDecisions ==
    LET r == calc.value
    IN  /\ r.result_v1.threshold = 840
        /\ r.result_v2.threshold = 840
        /\ r.trust_v1 = 900
        /\ r.result_v1.decision
        /\ r.trust_v2 < r.result_v2.threshold
        /\ ~r.result_v2.decision

\* C24 as stated: in the stale-trust scenario the decayed trust is about
\* 0.2231 (0.223 to three decimals), the threshold 0.84, the decayed trust
\* is denied and the undecayed 0.90 granted
C24_StaleTrustScenario ==
    calc.fn = "reproduce_bug.run" =>
        (StaleTrustDecisions /\ calc.value.trust_v2 = 223)

\* C24, amended: in the stale-trust scenario the decayed trust is about 0.2008
\* (0.9 * e^-1.5; 0.201 to three decimals), the threshold 0.84, the decayed
\* trust is denied and the undecayed 0.90 granted
C24_StaleTrustScenarioDecayed ==
    calc.fn = "reproduce_bug.run" =>
        (StaleTrustDecisions /\ calc.value.trust_v2 = 201)

\* C24 witness: the scenario has run, and its two systems disagree
C24_Witness ==
    /\ calc.fn = "reproduce_bug.run"
    /\ calc.value.result_v1.decision # calc.value.result_v2.decision

----------------------------------------------------------------------------
(* C25 *)

\* values of likelihood_compromised a caller of the write path may want to
\* supply: 0.5 (the default of calculate_posterior), 0.999 and 0.001
CallerLikelihoodsCompromised == {500, 999, 1}

\* C25: the posterior step of process_evidence uses the likelihood_compromised
\* its caller supplies, whichever value that is, and not a value derived from
\* the evidence likelihood inside the update path
C25_CompromisedLikelihoodSupplied ==
    [][ \A t \in Threads :
          (PredictStep(t) /\ th'[t].pc = "commit")
             => \A lc \in CallerLikelihoodsCompromised :
                   th'[t].posterior =
                      calculate_posterior(th'[t].prior_decayed,
                                          th[t].evidence_likelihood, lc) ]_vars

----------------------------------------------------------------------------
(* C26 *)

\* C26: raising the risk never turns a denial into a grant: when
\* evaluate_access denies for a trust, a base requirement >= 0, an alpha >= 0
\* and a risk r, it denies for the same trust, base and alpha at every risk
\* r2 >= r
C26_DenialSurvivesRisk ==
    (/\ calc.fn = "evaluate_access"
     /\ calc.args[2] >= 0
     /\ calc.args[4] >= 0
     /\ ~calc.value.decision)
    => \A r2 \in PolicyRisks :
          r2 >= calc.args[3]
             => ~evaluate_access(calc.args[1], calc.args[2], r2, calc.args[4]).decision

\* C26 witness, the case study: trust 0.75 on base 0.60 with alpha 0.5 was
\* denied at risk 0.9 with threshold 0.87, and is granted at risk 0.1 with
\* threshold 0.63
C26_Witness ==
    /\ calc.fn = "evaluate_access"
    /\ calc.args = <<750, 600, 9, ALPHA>>
    /\ ~calc.value.decision
    /\ calc.value.threshold = 870
    /\ evaluate_access(750, 600, 1, ALPHA) = LRAPResult(TRUE, 630, FALSE, "PERMIT")

----------------------------------------------------------------------------
(* C27 *)

\* the cafe request of the scenario was denied for a subject whose decayed
\* trust was positive
DeniedWithPositiveTrust ==
    /\ calc.fn = "scenario_alice.recovery"
    /\ ~calc.value.cafe.decision
    /\ calc.value.cafe.threshold = 870
    /\ calc.value.trust_at_request > 0

\* the MFA evidence raised the effective trust to at least 0.87 and the cafe
\* request made with no further time elapsed was permitted
Recovered ==
    /\ InThousandths(calc.value.one, calc.value.new_trust) >= 870
    /\ calc.value.cafe_post_mfa.decision

\* C27 as stated: once the cafe request was denied for a subject whose
\* decayed trust is positive, MFA evidence of likelihood 999 raises the
\* effective trust to at least 0.87 and the cafe request is permitted
C27_RecoveryAfterMFA == DeniedWithPositiveTrust => Recovered

\* C27, amended: once the cafe request was denied for a subject whose decayed
\* trust at the MFA update is at least 0.00001, MFA evidence of likelihood 999
\* raises the effective trust to at least 0.87 and the cafe request is
\* permitted; for a decayed trust of 0.000006 or less it stays denied
C27_RecoveryAboveFloor ==
    DeniedWithPositiveTrust =>
        LET prior == calc.value.prior_decayed
            one == calc.value.one
        IN  /\ prior * (100 * 1000) >= one => Recovered
            /\ prior * (1000 * 1000) <= 6 * one => ~calc.value.cafe_post_mfa.decision

\* C27 witness, the case study: Dr. Alice's trust 0.75, decayed over two
\* ticks, was denied in the cafe and the request after MFA was permitted
C27_Witness ==
    /\ DeniedWithPositiveTrust
    /\ calc.args = <<BeliefScale, 750, TickSize, 2 * TickSize>>
    /\ Recovered

----------------------------------------------------------------------------
(* C28 *)

\* C28: every granted response is justified when it is given: whenever
\* access_request returns status 200, with or without the cache, the subject's
\* effective trust at that time is at least the threshold of the object's
\* base requirement and the risk of the request's context, and the threshold
\* is at most 1.0
C28_GrantJustified ==
    [][ \A s \in Subjects, o \in Objects, c \in Contexts, u \in BOOLEAN :
          (AccessRequest(s, o, c, u) /\ resp'[1].status = 200)
             => LET trust == EffectiveTrust(DbGet(db, s), clock)
                    threshold == calculate_threshold(get_object_metadata(o),
                                                     get_environmental_risk(c),
                                                     ALPHA)
                IN  /\ ~trust.raised
                    /\ trust.value >= threshold
                    /\ threshold <= 1 * BeliefScale ]_vars

----------------------------------------------------------------------------
(* C29 *)

\* C29: unknown subjects fail closed: for a subject without a trust record,
\* PDP.decide returns decision = false for every object, known to the
\* attribute store or not, and every environment context
C29_UnknownSubjectDenied ==
    \A s \in Subjects \ DOMAIN db, o \in Objects, c \in Contexts :
        LET result == decide(db, clock, s, o, c)
        IN  result # <<>> /\ ~result[1].decision

====
